---- MODULE Spec2Model ----
(***************************************************************************)
(* The allow-list validator of azext_aks_preview/_validators.py:           *)
(* validate_ksm_parameter scans its argument character by character,       *)
(* collects a mapping key -> list of values in labelValueMap, and then     *)
(* matches every collected key against an identifier pattern.              *)
(*                                                                         *)
(* A string is a sequence of one-character strings.  Indices i and         *)
(* firstWordPos are the 0-based indices of the Python code, so the         *)
(* character at Python index i is param[i + 1].                            *)
(***************************************************************************)
EXTENDS Integers, Sequences, FiniteSets, TLC

VARIABLES ksmparam, pc, i, labelValueMap, name, firstWordPos, labelIdx,
          error, retval,
          namespace, wrapper, callNo, parserCalls, firstOutcome

\* What belongs to the caller of validate_ksm_parameter: the namespace, the
\* function the framework invoked, which invocation this is, how often the
\* parser was entered, and the outcome of the first invocation.
callerVars == <<namespace, wrapper, callNo, parserCalls, firstOutcome>>

vars == <<ksmparam, pc, i, labelValueMap, name, firstWordPos, labelIdx,
          error, retval, callerVars>>

-----------------------------------------------------------------------------
(* Characters and Python values                                            *)

\* The characters the model knows, by Python's ord.
LowerSeq ==
    << "a", "b", "c", "d", "e", "f", "g", "h", "i", "j", "k", "l", "m",
       "n", "o", "p", "q", "r", "s", "t", "u", "v", "w", "x", "y", "z" >>
UpperSeq ==
    << "A", "B", "C", "D", "E", "F", "G", "H", "I", "J", "K", "L", "M",
       "N", "O", "P", "Q", "R", "S", "T", "U", "V", "W", "X", "Y", "Z" >>
DigitSeq == << "0", "1", "2", "3", "4", "5", "6", "7", "8", "9" >>

Range(seq) == {seq[k] : k \in 1..Len(seq)}

IndexIn(seq, c) == CHOOSE k \in 1..Len(seq) : seq[k] = c

\* ord(c)
Ord(c) ==
    CASE c = "\n" -> 10
      [] c = "," -> 44
      [] c = "-" -> 45
      [] c = "=" -> 61
      [] c = "[" -> 91
      [] c = "]" -> 93
      [] c = "_" -> 95
      [] c \in Range(DigitSeq) -> 47 + IndexIn(DigitSeq, c)
      [] c \in Range(UpperSeq) -> 64 + IndexIn(UpperSeq, c)
      [] c \in Range(LowerSeq) -> 96 + IndexIn(LowerSeq, c)

\* EOF = -1, the value next takes at the last index.
EOF == -1

\* Python values carry their type: an int never equals a str.
PyInt(n) == [t |-> "int", v |-> n]
PyStr(c) == [t |-> "str", v |-> c]
PyNone == [t |-> "NoneType", v |-> <<>>]
PyDict(m) == [t |-> "dict", v |-> m]

\* a == b in Python, for the values above.
PyEq(a, b) == a.t = b.t /\ a.v = b.v

\* param[a:b] for 0 <= a <= b <= len(param).
Slice(param, a, b) == SubSeq(param, a + 1, b)

\* The two exceptions the function's code can raise.
InvalidArgumentValueError == "InvalidArgumentValueError"
KeyError == "KeyError"
NoError == "none"

-----------------------------------------------------------------------------
(* labelValueMap: a dict, kept as the sequence of its items in insertion   *)
(* order, each item [key, values].                                         *)

HasKey(m, k) == \E j \in 1..Len(m) : m[j].key = k

KeyIndex(m, k) == CHOOSE j \in 1..Len(m) : m[j].key = k

\* Faulty variant of SetItem: assigning to an existing key keeps its old
\* list and extends it, instead of replacing it.
SetItemMerging(m, k, val) ==
    IF HasKey(m, k)
    THEN [m EXCEPT ![KeyIndex(m, k)].values = @ \o val]
    ELSE Append(m, [key |-> k, values |-> val])

\* m[k] = val: an existing key keeps its position and takes the new value,
\* a new key is added at the end.
SetItem(m, k, val) ==
    IF HasKey(m, k)
    THEN [m EXCEPT ![KeyIndex(m, k)].values = val]
    ELSE Append(m, [key |-> k, values |-> val])

\* Faulty variant of AppendItem: the element goes to the list of the first
\* key of the dict, whichever key is named.
AppendItemFirst(m, k, x) ==
    [m EXCEPT ![1].values = Append(@, x)]

\* m[k].append(x), for a key the dict holds.
AppendItem(m, k, x) ==
    [m EXCEPT ![KeyIndex(m, k)].values = Append(@, x)]

-----------------------------------------------------------------------------
(* The loop body of validate_ksm_parameter                                 *)

\* next: EOF at the last index, else ord of the following character.
NextOf(param, idx) ==
    IF idx + 1 = Len(param) THEN PyInt(EOF)
    ELSE PyInt(Ord(param[idx + 2]))

\* Faulty variant of PreviousOf: at index 0 the start of the input counts as
\* a separator, ord(",").
PreviousOfSentinel(param, idx) ==
    IF idx - 1 >= 0 THEN PyInt(Ord(param[idx]))
    ELSE PyInt(Ord(","))

\* previous: ord of the preceding character, but at index 0 the current
\* character itself, a str.
PreviousOf(param, idx) ==
    IF idx - 1 >= 0 THEN PyInt(Ord(param[idx]))
    ELSE PyStr(param[idx + 1])

\* if previous == ord(",") or next != ord("["): raise
EqRejects(previous, next) ==
    PyEq(previous, PyInt(Ord(","))) \/ ~PyEq(next, PyInt(Ord("[")))

\* if previous != ord("="): raise
OpenRejects(previous) == ~PyEq(previous, PyInt(Ord("=")))

\* if next != EOF and next != ord(","): raise
CloseRejects(next) ==
    ~PyEq(next, PyInt(EOF)) /\ ~PyEq(next, PyInt(Ord(",")))

\* Faulty variant of CloseAppends: the closing bracket never appends the
\* last value.
CloseNeverAppends(previous) == FALSE

\* Faulty variant of CloseAppends: the closing bracket appends even right
\* after the opening one.
CloseAlwaysAppends(previous) == TRUE

\* if previous != ord("["): append
CloseAppends(previous) == ~PyEq(previous, PyInt(Ord("[")))

\* Faulty variant of CommaRejects: previous is compared with ord(v), which
\* the str held at index 0 never equals.
CommaRejectsOrd(previous, v, next) ==
    \/ PyEq(previous, PyInt(Ord(v)))
    \/ PyEq(next, PyInt(EOF))
    \/ PyEq(next, PyInt(Ord("]")))

\* if previous == v or next == EOF or next == ord("]"): raise
CommaRejects(previous, v, next) ==
    \/ PyEq(previous, PyStr(v))
    \/ PyEq(next, PyInt(EOF))
    \/ PyEq(next, PyInt(Ord("]")))

\* if previous != ord("]"): append
CommaAppends(previous) == ~PyEq(previous, PyInt(Ord("]")))

\* The locals of the call that the loop reads and writes.
Frame(m, n, f, e) ==
    [labelValueMap |-> m, name |-> n, firstWordPos |-> f, error |-> e]

\* raise InvalidArgumentValueError(...)
Raise(fr) == [fr EXCEPT !.error = InvalidArgumentValueError]

\* Faulty variant of AppendValue: a value is held to the characters a key
\* may have, and refused otherwise.
AppendValueChecked(fr, x) ==
    IF \E j \in 1..Len(x) :
           x[j] \notin Range(LowerSeq) \cup Range(UpperSeq)
                           \cup Range(DigitSeq) \cup {"_"}
    THEN Raise(fr)
    ELSE IF HasKey(fr.labelValueMap, fr.name)
         THEN [fr EXCEPT !.labelValueMap = AppendItem(@, fr.name, x)]
         ELSE [fr EXCEPT !.error = KeyError]

\* labelValueMap[name].append(x): a KeyError when name is not a key.
AppendValue(fr, x) ==
    IF HasKey(fr.labelValueMap, fr.name)
    THEN [fr EXCEPT !.labelValueMap = AppendItem(@, fr.name, x)]
    ELSE [fr EXCEPT !.error = KeyError]

\* Faulty variant of Restart: firstWordPos = i, the index of the delimiter
\* itself.
RestartAtDelimiter(fr, idx) ==
    IF fr.error = NoError THEN [fr EXCEPT !.firstWordPos = idx] ELSE fr

\* firstWordPos = i + 1, reached only when nothing was raised before it.
Restart(fr, idx) ==
    IF fr.error = NoError THEN [fr EXCEPT !.firstWordPos = idx + 1] ELSE fr

EqBranch(param, idx, fr) ==
    IF EqRejects(PreviousOf(param, idx), NextOf(param, idx))
    THEN Raise(fr)
    ELSE LET key == Slice(param, fr.firstWordPos, idx)
         IN  [fr EXCEPT !.name = key,
                        !.labelValueMap = SetItem(@, key, <<>>),
                        !.firstWordPos = idx + 1]

\* Faulty variant of OpenBranch: an accepted '[' leaves firstWordPos where
\* it was.
OpenBranchKeepsStart(param, idx, fr) ==
    IF OpenRejects(PreviousOf(param, idx))
    THEN Raise(fr)
    ELSE fr

OpenBranch(param, idx, fr) ==
    IF OpenRejects(PreviousOf(param, idx))
    THEN Raise(fr)
    ELSE [fr EXCEPT !.firstWordPos = idx + 1]

CloseBranch(param, idx, fr) ==
    IF CloseRejects(NextOf(param, idx))
    THEN Raise(fr)
    ELSE IF CloseAppends(PreviousOf(param, idx))
         THEN Restart(AppendValue(fr, Slice(param, fr.firstWordPos, idx)), idx)
         ELSE Restart(fr, idx)

CommaBranch(param, idx, fr) ==
    IF CommaRejects(PreviousOf(param, idx), param[idx + 1], NextOf(param, idx))
    THEN Raise(fr)
    ELSE IF CommaAppends(PreviousOf(param, idx))
         THEN Restart(AppendValue(fr, Slice(param, fr.firstWordPos, idx)), idx)
         ELSE Restart(fr, idx)

Delimiters == {"=", "[", "]", ","}

\* One iteration of the for loop at index idx.
LoopBody(param, idx, fr) ==
    CASE param[idx + 1] = "=" -> EqBranch(param, idx, fr)
      [] param[idx + 1] = "[" -> OpenBranch(param, idx, fr)
      [] param[idx + 1] = "]" -> CloseBranch(param, idx, fr)
      [] param[idx + 1] = "," -> CommaBranch(param, idx, fr)
      [] OTHER -> fr

-----------------------------------------------------------------------------
(* The key pattern                                                         *)

Lower == Range(LowerSeq)
Upper == Range(UpperSeq)
Digit == Range(DigitSeq)

\* [a-zA-Z_][A-Za-z0-9_]+ matching the whole of s.
IsIdentifier(s) ==
    /\ Len(s) >= 2
    /\ s[1] \in Lower \cup Upper \cup {"_"}
    /\ \A j \in 2..Len(s) : s[j] \in Lower \cup Upper \cup Digit \cup {"_"}

\* Faulty variant of LabelMatches: the pattern with * in place of +, which
\* lets a one-character key through.
LabelMatchesStar(label) ==
    /\ Len(label) >= 1
    /\ label[1] \in Lower \cup Upper \cup {"_"}
    /\ \A j \in 2..Len(label) :
           label[j] \in Lower \cup Upper \cup Digit \cup {"_"}

\* bool(re.match(r'^[a-zA-Z_][A-Za-z0-9_]+$', label)): Python's $ matches at
\* the end of the string and also just before a newline that ends it.
LabelMatches(label) ==
    \/ IsIdentifier(label)
    \/ /\ Len(label) >= 1
       /\ label[Len(label)] = "\n"
       /\ IsIdentifier(SubSeq(label, 1, Len(label) - 1))

\* Faulty variant of ReturnValue: the function hands its dict back.
ReturnsTheMap(m) == PyDict(m)

\* The function has no return statement: its caller receives None.
ReturnValue(m) == PyNone

-----------------------------------------------------------------------------
(* The whole call as a function of its argument                            *)

RECURSIVE ScanFrom(_, _, _)
ScanFrom(param, idx, fr) ==
    IF fr.error # NoError \/ idx = Len(param) THEN fr
    ELSE ScanFrom(param, idx + 1, LoopBody(param, idx, fr))

KeyPass(fr) ==
    IF fr.error # NoError THEN fr
    ELSE IF \E j \in 1..Len(fr.labelValueMap) :
                ~LabelMatches(fr.labelValueMap[j].key)
         THEN Raise(fr)
         ELSE fr

\* The outcome of validate_ksm_parameter(param): the error raised (or none)
\* and the dict as it stood.
Parse(param) == KeyPass(ScanFrom(param, 0, Frame(<<>>, <<>>, 0, NoError)))

-----------------------------------------------------------------------------
(* Inputs                                                                  *)

MaxTok == 4
MaxGroups == 2

\* The characters inputs are built from: the four delimiters, a letter, a
\* digit, a character no key may hold, and the newline.
Alphabet == {"=", "[", "]", ",", "x", "1", "-", "\n"}

\* Pieces of input: every single character, a two-letter word, and the
\* opening of a group with a two-letter key.
Tokens ==
    {<<c>> : c \in Alphabet} \cup {<<"x", "x">>, <<"x", "x", "=", "[">>}

RECURSIVE TokenStrings(_)
TokenStrings(n) ==
    IF n = 0 THEN {<<>>}
    ELSE LET S == TokenStrings(n - 1)
         IN  S \cup {s \o t : s \in S, t \in Tokens}

\* Well-formed inputs: comma-joined groups key=[v1,...,vn].
KeyChoices == {<<"x", "x">>, <<"_", "1">>}
ValueChoices ==
    {<<>>, << <<"x">> >>, << <<"-", "1">> >>, << <<"-", "1">>, <<"x">> >>}
GroupChoices == [key : KeyChoices, values : ValueChoices]

RECURSIVE GroupSeqs(_)
GroupSeqs(n) ==
    IF n = 0 THEN {<<>>}
    ELSE LET S == GroupSeqs(n - 1)
         IN  S \cup {Append(g, x) : g \in S, x \in GroupChoices}

RECURSIVE Join(_, _)
Join(parts, sep) ==
    IF Len(parts) = 0 THEN <<>>
    ELSE IF Len(parts) = 1 THEN parts[1]
    ELSE parts[1] \o sep \o Join(Tail(parts), sep)

RenderGroup(g) == g.key \o <<"=", "[">> \o Join(g.values, <<",">>) \o <<"]">>

Render(gs) == Join([j \in 1..Len(gs) |-> RenderGroup(gs[j])], <<",">>)

\* The example of the module's usage text, as groups.
UsageExample ==
    << [key |-> <<"n", "a", "m", "e", "s", "p", "a", "c", "e", "s">>,
        values |-> << <<"k", "8", "s", "-", "l", "a", "b", "e", "l", "-", "1">>,
                      <<"k", "8", "s", "-", "l", "a", "b", "e", "l", "-", "n">> >>],
       [key |-> <<"p", "o", "d", "s">>, values |-> << <<"a", "p", "p">> >>] >>

WellFormed == {gs \in GroupSeqs(MaxGroups) : Len(gs) >= 1} \cup {UsageExample}

\* Inputs named one by one: a duplicated key, once one character long and
\* once two; a comma outside any group; a doubled comma; a bracket left
\* open; a word after the last group.
DupX ==
    <<"x", "=", "[", "a", "]", ",", "x", "=", "[", "b", "]">>
DupXX ==
    <<"x", "x", "=", "[", "a", "]", ",", "x", "x", "=", "[", "b", "]">>
CommaBeforeKey ==
    <<"a", "b", ",", "c", "d", "=", "[", "x", "]">>
DoubledComma ==
    <<"x", "x", "=", "[", "a", ",", ",", "b", "]">>
OpenBracket ==
    <<"x", "x", "=", "[", "a">>
TrailingWord ==
    <<"x", "x", "=", "[", "a", "]", ",", "y", "y">>

\* Every well-formed input beside the groups it was written from.
WellFormedTable == {[text |-> Render(gs), groups |-> gs] : gs \in WellFormed}

\* More inputs named one by one: a leading comma; an empty key; a comma
\* before the closing bracket and at the very end; a key with no bracket.
LeadingComma ==
    <<",", "p", "o", "d", "s", "=", "[", "a", "p", "p", "]">>
EmptyKey ==
    <<"=", "[", "a", "]">>
CommaBeforeClose ==
    <<"x", "x", "=", "[", "a", ",", "]">>
CommaAtEnd ==
    <<"x", "x", "=", "[", "a", "]", ",">>
KeyWithoutBracket ==
    <<"x", "x", "=", "a">>

\* Keys that match the pattern, each to be given an empty group k=[].
EmptyGroupKeys ==
    { <<"p", "o", "d", "s">>, <<"x", "x">>, <<"_", "1">>,
      <<"A", "b", "_", "9">>, <<"x", "1">> }

EmptyGroup(k) == k \o <<"=", "[", "]">>

Examples ==
    {DupX, DupXX, CommaBeforeKey, DoubledComma, OpenBracket, TrailingWord,
     LeadingComma, EmptyKey, CommaBeforeClose, CommaAtEnd, KeyWithoutBracket}
        \cup {EmptyGroup(k) : k \in EmptyGroupKeys}

Inputs ==
    TokenStrings(MaxTok) \cup {e.text : e \in WellFormedTable} \cup Examples

-----------------------------------------------------------------------------
(* The call, step by step                                                  *)

\* A namespace in which neither allow-list flag was given.
NoFlags ==
    [ksm_metric_labels_allow_list |-> PyNone,
     ksm_metric_annotations_allow_list |-> PyNone]

NoOutcome == [pc |-> "none"]

\* validate_ksm_parameter called on its own, once.
Init ==
    /\ ksmparam \in Inputs
    /\ pc = "scan"
    /\ i = 0
    /\ labelValueMap = <<>>
    /\ name = <<>>
    /\ firstWordPos = 0
    /\ labelIdx = 0
    /\ error = NoError
    /\ retval = PyStr("unset")
    /\ namespace = NoFlags
    /\ wrapper = "validate_ksm_parameter"
    /\ callNo = 1
    /\ parserCalls = 1
    /\ firstOutcome = NoOutcome

\* Faulty variant of Iterate: the loop index stays where it is.
IterateInPlace(fr) ==
    /\ labelValueMap' = fr.labelValueMap
    /\ name' = fr.name
    /\ firstWordPos' = fr.firstWordPos
    /\ error' = fr.error
    /\ IF fr.error = NoError
       THEN pc' = "scan" /\ i' = i
       ELSE pc' = "raised" /\ i' = i
    /\ UNCHANGED <<ksmparam, labelIdx, retval, callerVars>>

\* The locals after one loop iteration: the next index, or the raise.
Iterate(fr) ==
    /\ labelValueMap' = fr.labelValueMap
    /\ name' = fr.name
    /\ firstWordPos' = fr.firstWordPos
    /\ error' = fr.error
    /\ IF fr.error = NoError
       THEN pc' = "scan" /\ i' = i + 1
       ELSE pc' = "raised" /\ i' = i
    /\ UNCHANGED <<ksmparam, labelIdx, retval, callerVars>>

Current == Frame(labelValueMap, name, firstWordPos, error)

ScanEq ==
    /\ pc = "scan" /\ i < Len(ksmparam) /\ ksmparam[i + 1] = "="
    /\ Iterate(EqBranch(ksmparam, i, Current))

ScanOpen ==
    /\ pc = "scan" /\ i < Len(ksmparam) /\ ksmparam[i + 1] = "["
    /\ Iterate(OpenBranch(ksmparam, i, Current))

ScanClose ==
    /\ pc = "scan" /\ i < Len(ksmparam) /\ ksmparam[i + 1] = "]"
    /\ Iterate(CloseBranch(ksmparam, i, Current))

ScanComma ==
    /\ pc = "scan" /\ i < Len(ksmparam) /\ ksmparam[i + 1] = ","
    /\ Iterate(CommaBranch(ksmparam, i, Current))

ScanOther ==
    /\ pc = "scan" /\ i < Len(ksmparam) /\ ksmparam[i + 1] \notin Delimiters
    /\ Iterate(Current)

\* Faulty variant of ScanEnd: an empty argument is refused.
ScanEndRefusesEmpty ==
    /\ pc = "scan" /\ i = Len(ksmparam)
    /\ IF Len(ksmparam) = 0
       THEN pc' = "raised" /\ error' = InvalidArgumentValueError
       ELSE pc' = "keys" /\ error' = error
    /\ labelIdx' = 1
    /\ UNCHANGED <<ksmparam, i, labelValueMap, name, firstWordPos, retval,
                   callerVars>>

\* The for loop over the characters is exhausted: the loop over the keys
\* starts.
ScanEnd ==
    /\ pc = "scan" /\ i = Len(ksmparam)
    /\ pc' = "keys"
    /\ labelIdx' = 1
    /\ UNCHANGED <<ksmparam, i, labelValueMap, name, firstWordPos, error,
                   retval, callerVars>>

\* for label in labelValueMap: one key.
CheckLabel ==
    /\ pc = "keys" /\ labelIdx <= Len(labelValueMap)
    /\ IF LabelMatches(labelValueMap[labelIdx].key)
       THEN /\ labelIdx' = labelIdx + 1
            /\ UNCHANGED <<pc, error>>
       ELSE /\ pc' = "raised"
            /\ error' = InvalidArgumentValueError
            /\ UNCHANGED labelIdx
    /\ UNCHANGED <<ksmparam, i, labelValueMap, name, firstWordPos, retval,
                   callerVars>>

\* Every key matched: the function ends.
Return ==
    /\ pc = "keys" /\ labelIdx > Len(labelValueMap)
    /\ pc' = "returned"
    /\ retval' = ReturnValue(labelValueMap)
    /\ UNCHANGED <<ksmparam, i, labelValueMap, name, firstWordPos, labelIdx,
                   error, callerVars>>

Next ==
    \/ ScanEq
    \/ ScanOpen
    \/ ScanClose
    \/ ScanComma
    \/ ScanOther
    \/ ScanEnd
    \/ CheckLabel
    \/ Return

Spec == Init /\ [][Next]_vars

\* The inputs of the calls followed to their end under fairness.
MaxFairTok == 3

FairInputs ==
    TokenStrings(MaxFairTok) \cup {e.text : e \in WellFormedTable}
        \cup Examples

InitFair ==
    /\ ksmparam \in FairInputs
    /\ pc = "scan"
    /\ i = 0
    /\ labelValueMap = <<>>
    /\ name = <<>>
    /\ firstWordPos = 0
    /\ labelIdx = 0
    /\ error = NoError
    /\ retval = PyStr("unset")
    /\ namespace = NoFlags
    /\ wrapper = "validate_ksm_parameter"
    /\ callNo = 1
    /\ parserCalls = 1
    /\ firstOutcome = NoOutcome

\* The interpreter runs the call without pause: a statement that can run
\* does run.
FairSpec == InitFair /\ [][Next]_vars /\ WF_vars(Next)

Terminated == pc \in {"returned", "raised"}

Accepted == pc = "returned"

RejectedInvalidFormat == pc = "raised" /\ error = InvalidArgumentValueError

-----------------------------------------------------------------------------
(* The validators the framework invokes: validate_ksm_labels and           *)
(* validate_ksm_annotations, each run twice on the same namespace          *)

MaxAttrTok == 2

Wrappers == {"validate_ksm_labels", "validate_ksm_annotations"}

\* Faulty variant of AttrOf: each wrapper reads the other one's attribute.
AttrOfSwapped(w) ==
    IF w = "validate_ksm_labels" THEN "ksm_metric_annotations_allow_list"
    ELSE "ksm_metric_labels_allow_list"

\* The namespace attribute a wrapper reads.
AttrOf(w) ==
    IF w = "validate_ksm_labels" THEN "ksm_metric_labels_allow_list"
    ELSE "ksm_metric_annotations_allow_list"

\* Values of a flag: not given (None), or a string.
FlagValues == {PyNone} \cup {PyStr(s) : s \in TokenStrings(MaxAttrTok) \cup Examples}

\* The values the flag beside the one under study takes: not given, a valid
\* string, an invalid one.
OtherFlagValues == {PyNone, PyStr(DupXX), PyStr(KeyWithoutBracket)}

Namespaces ==
    [ksm_metric_labels_allow_list : FlagValues,
     ksm_metric_annotations_allow_list : OtherFlagValues]
    \cup
    [ksm_metric_labels_allow_list : OtherFlagValues,
     ksm_metric_annotations_allow_list : FlagValues]

\* Faulty variant of NamespaceAfter: the wrapper clears the flag it has
\* validated.
NamespaceCleared(ns, w) == [ns EXCEPT ![AttrOf(w)] = PyNone]

\* The namespace once wrapper w has run: neither wrapper assigns to it.
NamespaceAfter(ns, w) == ns

\* The result of a finished invocation.
Outcome ==
    [pc |-> pc, error |-> error, retval |-> retval,
     labelValueMap |-> labelValueMap]

InitCalls ==
    /\ namespace \in Namespaces
    /\ wrapper \in Wrappers
    /\ pc = "wrapper"
    /\ ksmparam = <<>>
    /\ i = 0
    /\ labelValueMap = <<>>
    /\ name = <<>>
    /\ firstWordPos = 0
    /\ labelIdx = 0
    /\ error = NoError
    /\ retval = PyStr("unset")
    /\ callNo = 1
    /\ parserCalls = 0
    /\ firstOutcome = NoOutcome

\* if namespace.<attribute> is None: return
WrapperSkip ==
    /\ pc = "wrapper"
    /\ PyEq(namespace[AttrOf(wrapper)], PyNone)
    /\ pc' = "returned"
    /\ retval' = PyNone
    /\ namespace' = NamespaceAfter(namespace, wrapper)
    /\ UNCHANGED <<ksmparam, i, labelValueMap, name, firstWordPos, labelIdx,
                   error, wrapper, callNo, parserCalls, firstOutcome>>

\* validate_ksm_parameter(namespace.<attribute>): the parser starts on the
\* attribute's string with locals of its own.
WrapperCall ==
    /\ pc = "wrapper"
    /\ ~PyEq(namespace[AttrOf(wrapper)], PyNone)
    /\ ksmparam' = namespace[AttrOf(wrapper)].v
    /\ pc' = "scan"
    /\ parserCalls' = parserCalls + 1
    /\ namespace' = NamespaceAfter(namespace, wrapper)
    /\ UNCHANGED <<i, labelValueMap, name, firstWordPos, labelIdx, error,
                   retval, wrapper, callNo, firstOutcome>>

\* The first invocation is over; the same wrapper is invoked once more on
\* the namespace as it now stands.
CallAgain ==
    /\ pc \in {"returned", "raised"}
    /\ callNo = 1
    /\ firstOutcome' = Outcome
    /\ callNo' = 2
    /\ pc' = "wrapper"
    /\ ksmparam' = <<>>
    /\ i' = 0
    /\ labelValueMap' = <<>>
    /\ name' = <<>>
    /\ firstWordPos' = 0
    /\ labelIdx' = 0
    /\ error' = NoError
    /\ retval' = PyStr("unset")
    /\ UNCHANGED <<namespace, wrapper, parserCalls>>

NextCalls ==
    \/ WrapperSkip
    \/ WrapperCall
    \/ CallAgain
    \/ Next

SpecCalls == InitCalls /\ [][NextCalls]_vars

-----------------------------------------------------------------------------
(* validate_nodes_count                                                    *)

\* The range the two counts are held to.
NodesCountLow == 0
NodesCountHigh == 1000

\* How far beyond either end of the range the counts tried reach.
MaxOff == 2

\* Values of --min-count and --max-count: not given (None), or an int near
\* either end of the range.
CountValues ==
    {PyNone}
        \cup {PyInt(n) : n \in (NodesCountLow - MaxOff)..(NodesCountLow + MaxOff)}
        \cup {PyInt(n) : n \in (NodesCountHigh - MaxOff)..(NodesCountHigh + MaxOff)}

CountNamespaces == [min_count : CountValues, max_count : CountValues]

MinCountError == "CLIError('--min-count must be in the range [0,1000]')"
MaxCountError == "CLIError('--max-count must be in the range [0,1000]')"

\* Faulty variant of CountOutOfRange: the two ends of the range are refused.
CountOutOfRangeStrict(n) == n <= NodesCountLow \/ n >= NodesCountHigh

\* count < 0 or count > 1000
CountOutOfRange(n) == n < NodesCountLow \/ n > NodesCountHigh

InitNodes ==
    /\ namespace \in CountNamespaces
    /\ wrapper = "validate_nodes_count"
    /\ pc = "min_count"
    /\ error = NoError
    /\ retval = PyStr("unset")
    /\ ksmparam = <<>>
    /\ i = 0
    /\ labelValueMap = <<>>
    /\ name = <<>>
    /\ firstWordPos = 0
    /\ labelIdx = 0
    /\ callNo = 1
    /\ parserCalls = 0
    /\ firstOutcome = NoOutcome

\* if namespace.min_count is not None: if out of range: raise
CheckMinCount ==
    /\ pc = "min_count"
    /\ IF /\ ~PyEq(namespace.min_count, PyNone)
          /\ CountOutOfRange(namespace.min_count.v)
       THEN pc' = "raised" /\ error' = MinCountError
       ELSE pc' = "max_count" /\ error' = error
    /\ UNCHANGED <<ksmparam, i, labelValueMap, name, firstWordPos, labelIdx,
                   retval, callerVars>>

\* if namespace.max_count is not None: if out of range: raise; else the
\* function ends and its caller receives None.
CheckMaxCount ==
    /\ pc = "max_count"
    /\ IF /\ ~PyEq(namespace.max_count, PyNone)
          /\ CountOutOfRange(namespace.max_count.v)
       THEN pc' = "raised" /\ error' = MaxCountError /\ retval' = retval
       ELSE pc' = "returned" /\ error' = error /\ retval' = PyNone
    /\ UNCHANGED <<ksmparam, i, labelValueMap, name, firstWordPos, labelIdx,
                   callerVars>>

NextNodes ==
    \/ CheckMinCount
    \/ CheckMaxCount

SpecNodes == InitNodes /\ [][NextNodes]_vars

-----------------------------------------------------------------------------
(* What the claims speak of                                                *)

\* No two groups share a key.
DistinctKeys(gs) ==
    \A a, b \in 1..Len(gs) : a # b => gs[a].key # gs[b].key

\* The values of the last group of gs whose key is k.
LastValues(gs, k) ==
    LET last == CHOOSE j \in 1..Len(gs) :
                    /\ gs[j].key = k
                    /\ \A h \in (j + 1)..Len(gs) : gs[h].key # k
    IN  gs[last].values

\* The items of map m whose key is k.
ItemsOf(m, k) == {j \in 1..Len(m) : m[j].key = k}

\* Some ',' of s directly follows another ','.
HasDoubledComma(s) ==
    \E p \in 2..Len(s) : s[p] = "," /\ s[p - 1] = ","

\* Some '[' of s has no ']' after it.
EndsInOpenBracket(s) ==
    \E p \in 1..Len(s) :
        /\ s[p] = "["
        /\ \A q \in (p + 1)..Len(s) : s[q] # "]"

\* Where a reader of key=[v,...],key=[v,...] stands after n characters of s.
\* Keys and values are any runs of non-delimiters, empty runs included.
RECURSIVE GroupFormState(_, _)
GroupFormState(s, n) ==
    IF n = 0 THEN "key"
    ELSE LET q == GroupFormState(s, n - 1)
             c == s[n]
         IN  CASE q = "key" ->
                    IF c = "=" THEN "eq"
                    ELSE IF c \in Delimiters THEN "fail" ELSE "key"
               [] q = "eq" -> IF c = "[" THEN "list" ELSE "fail"
               [] q = "list" ->
                    IF c = "]" THEN "closed"
                    ELSE IF c \in {"=", "["} THEN "fail" ELSE "list"
               [] q = "closed" -> IF c = "," THEN "key" ELSE "fail"
               [] OTHER -> "fail"

IsGroupList(s) == GroupFormState(s, Len(s)) = "closed"

\* Some ',' of s is the last character or stands right before a ']'.
HasCommaBeforeEnd(s) ==
    \E p \in 1..Len(s) :
        s[p] = "," /\ (p = Len(s) \/ s[p + 1] = "]")

\* Some '=' of s directly follows a ',' or is not directly followed by '['.
HasBadEquals(s) ==
    \E p \in 1..Len(s) :
        /\ s[p] = "="
        /\ \/ (p > 1 /\ s[p - 1] = ",")
           \/ p = Len(s)
           \/ s[p + 1] # "["

\* Some '[' of s does not directly follow a '='.
HasBadOpen(s) ==
    \E p \in 1..Len(s) :
        s[p] = "[" /\ (p = 1 \/ s[p - 1] # "=")

\* Some ']' of s is followed by a character other than ','.
HasBadClose(s) ==
    \E p \in 1..Len(s) :
        s[p] = "]" /\ p < Len(s) /\ s[p + 1] # ","

\* The delimiter rules of the scan, for the delimiter at position p of s
\* (positions counted from 1).
EqRuleHolds(s, p) ==
    (p = 1 \/ s[p - 1] # ",") /\ p < Len(s) /\ s[p + 1] = "["

OpenRuleHolds(s, p) == p > 1 /\ s[p - 1] = "="

CloseRuleHolds(s, p) == p = Len(s) \/ s[p + 1] = ","

CommaRuleHolds(s, p) ==
    p > 1 /\ s[p - 1] # "," /\ p < Len(s) /\ s[p + 1] # "]"

RuleHolds(s, p) ==
    CASE s[p] = "=" -> EqRuleHolds(s, p)
      [] s[p] = "[" -> OpenRuleHolds(s, p)
      [] s[p] = "]" -> CloseRuleHolds(s, p)
      [] s[p] = "," -> CommaRuleHolds(s, p)
      [] OTHER -> TRUE

\* The character before position p of s is not c; so it is at position 1,
\* which has no character before it.
PreviousCharIsNot(s, p, c) == p = 1 \/ s[p - 1] # c

\* The step taken appends x as the last element of the list of the current
\* key and changes nothing else of the mapping.
AppendsOne(x) ==
    /\ HasKey(labelValueMap, name)
    /\ labelValueMap' = AppendItem(labelValueMap, name, x)


\* The step taken leaves every item of the mapping whose key is not k as it
\* was, and in its place.
OthersUnchanged(k) ==
    \A j \in 1..Len(labelValueMap) :
        labelValueMap[j].key # k =>
            (j <= Len(labelValueMap') /\ labelValueMap'[j] = labelValueMap[j])

\* The step taken neither adds, removes nor renames a key.
SameKeys ==
    /\ Len(labelValueMap') = Len(labelValueMap)
    /\ \A j \in 1..Len(labelValueMap) :
           labelValueMap'[j].key = labelValueMap[j].key

\* The position right after the last delimiter among the first n characters
\* of s, 0 when there is none.
LastDelimiterEnd(s, n) ==
    LET D == {p \in 1..n : s[p] \in Delimiters}
    IN  IF D = {} THEN 0 ELSE CHOOSE p \in D : \A q \in D : q <= p

\* Position p of s holds a character of a value token: a non-delimiter whose
\* run of non-delimiters is not directly followed by '=' (a run that is, is
\* a key).
InValueToken(s, p) ==
    /\ s[p] \notin Delimiters
    /\ LET e == CHOOSE q \in p..Len(s) :
                    /\ \A h \in p..q : s[h] \notin Delimiters
                    /\ (q = Len(s) \/ s[q + 1] \in Delimiters)
       IN  ~(e < Len(s) /\ s[e + 1] = "=")

\* s with every character of every value token replaced by c.
SubstValues(s, c) ==
    [p \in 1..Len(s) |-> IF InValueToken(s, p) THEN c ELSE s[p]]

\* s with every character of every value token written twice, from
\* position p on.
RECURSIVE StretchFrom(_, _)
StretchFrom(s, p) ==
    IF p > Len(s) THEN <<>>
    ELSE (IF InValueToken(s, p) THEN <<s[p], s[p]>> ELSE <<s[p]>>)
             \o StretchFrom(s, p + 1)

StretchValues(s) == StretchFrom(s, 1)

\* Characters to write values with: one a key may hold, one it may not, and
\* the newline.
ValueFill == {"x", "-", "\n"}

\* Inputs that differ from s only inside its value tokens.
ValueVariants(s) == {SubstValues(s, c) : c \in ValueFill} \cup {StretchValues(s)}

\* The positions of s whose delimiter rule is violated.
Violations(s) == {p \in 1..Len(s) : ~RuleHolds(s, p)}

\* The leftmost of them, when there is one.
LeftmostViolation(s) ==
    CHOOSE p \in Violations(s) : \A q \in Violations(s) : p <= q

\* No character of x is a delimiter.
DelimiterFree(x) == \A j \in 1..Len(x) : x[j] \notin Delimiters

\* The flag a validator is registered for, by the validator's name.
OwnFlag(ns, w) ==
    CASE w = "validate_ksm_labels" -> ns.ksm_metric_labels_allow_list
      [] w = "validate_ksm_annotations" -> ns.ksm_metric_annotations_allow_list

\* A count was given and lies outside 0..1000.
GivenAndOutside(count) ==
    /\ count # PyNone
    /\ count.v \notin NodesCountLow..NodesCountHigh

-----------------------------------------------------------------------------
(* Claims                                                                  *)

\* C1: a call that fails, fails with InvalidArgumentValueError and with no
\* other exception.
C1_OnlyInvalidFormat ==
    pc = "raised" => error = InvalidArgumentValueError

\* C2: an input made of groups k=[v1,...,vn] with pairwise distinct keys that
\* match the pattern and non-empty delimiter-free values is accepted, and the
\* mapping holds exactly those keys, in input order, each with its values in
\* input order.
C2_WellFormedParses ==
    Terminated =>
        \A e \in WellFormedTable :
            (ksmparam = e.text /\ DistinctKeys(e.groups)) =>
                (Accepted /\ labelValueMap = e.groups)

C2_Witness ==
    /\ Accepted
    /\ ksmparam = Render(<< [key |-> <<"x", "x">>,
                            values |-> << <<"-", "1">>, <<"x">> >>],
                           [key |-> <<"_", "1">>, values |-> << <<"x">> >>] >>)

\* C3: an input in which a ',' directly follows another ',' is never
\* accepted.
C3_DoubledCommaRejected ==
    Accepted => ~HasDoubledComma(ksmparam)

\* C4: an input with a '[' that no later ']' closes is never accepted.
C4_UnclosedBracketRejected ==
    Accepted => ~EndsInOpenBracket(ksmparam)

\* C5: for an accepted input, writing the mapping out as
\* key1=[v1,v2],key2=[v3] and parsing that again succeeds and gives the same
\* mapping.
C5_RoundTrip ==
    Accepted =>
        LET again == Parse(Render(labelValueMap))
        IN  again.error = NoError /\ again.labelValueMap = labelValueMap

\* C6: every non-empty accepted input is a comma-separated sequence of groups
\* key=[...], with no text outside a group.
C6_AcceptedHasGroupForm ==
    (Accepted /\ Len(ksmparam) > 0) => IsGroupList(ksmparam)

\* C7, as stated: parsing "x=[a],x=[b]" succeeds with the mapping x -> [b].
C7_DupXAccepted ==
    (Terminated /\ ksmparam = DupX) =>
        /\ Accepted
        /\ labelValueMap = << [key |-> <<"x">>, values |-> << <<"b">> >>] >>

\* C7, amended: "x=[a],x=[b]" is rejected with InvalidArgumentValueError (the
\* key x is one character long), and "xx=[a],xx=[b]" is accepted with the
\* mapping xx -> [b].
C7_DupKeyLastWins ==
    /\ (Terminated /\ ksmparam = DupX) => RejectedInvalidFormat
    /\ (Terminated /\ ksmparam = DupXX) =>
           /\ Accepted
           /\ labelValueMap =
                  << [key |-> <<"x", "x">>, values |-> << <<"b">> >>] >>

C7_Witness == Accepted /\ ksmparam = DupXX

\* C8: when a key occurs in several groups of a well-formed input, the
\* mapping has one item for it, holding the value list of its last group.
C8_LastGroupReplaces ==
    Terminated =>
        \A e \in WellFormedTable :
            (ksmparam = e.text /\ ~DistinctKeys(e.groups)) =>
                /\ Accepted
                /\ \A g \in 1..Len(e.groups) :
                       LET k == e.groups[g].key
                       IN  /\ Cardinality(ItemsOf(labelValueMap, k)) = 1
                           /\ \A j \in ItemsOf(labelValueMap, k) :
                                  labelValueMap[j].values =
                                      LastValues(e.groups, k)

C8_Witness ==
    /\ Accepted
    /\ ksmparam = Render(<< [key |-> <<"x", "x">>, values |-> << <<"x">> >>],
                           [key |-> <<"x", "x">>,
                            values |-> << <<"-", "1">>, <<"x">> >>] >>)
    /\ labelValueMap = << [key |-> <<"x", "x">>,
                           values |-> << <<"-", "1">>, <<"x">> >>] >>

C10_BadKeyRejected ==
    (Terminated /\ \E j \in 1..Len(labelValueMap) :
                       ~IsIdentifier(labelValueMap[j].key))
        => RejectedInvalidFormat

\* C11: when the call completes, every key of the mapping is of the form
\* [a-zA-Z_][A-Za-z0-9_]+.
C11_AcceptedKeysAreIdentifiers ==
    Accepted =>
        \A j \in 1..Len(labelValueMap) : IsIdentifier(labelValueMap[j].key)

\* C12: an input holding a ',' that is last or stands right before a ']'
\* fails with InvalidArgumentValueError.
C12_CommaBeforeEndRejected ==
    (Terminated /\ HasCommaBeforeEnd(ksmparam)) => RejectedInvalidFormat

\* C13: an input holding a '=' that directly follows a ',' or is not directly
\* followed by '[' fails with InvalidArgumentValueError.
C13_BadEqualsRejected ==
    (Terminated /\ HasBadEquals(ksmparam)) => RejectedInvalidFormat

\* C14: an input holding a '[' that does not directly follow a '=' fails with
\* InvalidArgumentValueError.
C14_BadOpenRejected ==
    (Terminated /\ HasBadOpen(ksmparam)) => RejectedInvalidFormat

\* C15: an input holding a ']' followed by a character other than ',' fails
\* with InvalidArgumentValueError.
C15_BadCloseRejected ==
    (Terminated /\ HasBadClose(ksmparam)) => RejectedInvalidFormat

\* C16: the empty string is accepted with the empty mapping and no error.
C16_EmptyInputAccepted ==
    (Terminated /\ ksmparam = <<>>) =>
        (Accepted /\ error = NoError /\ labelValueMap = <<>>)

C16_Witness == ksmparam = <<>> /\ pc = "returned" /\ Len(labelValueMap) = 0

\* C17: for a key k that matches the pattern, k=[] is accepted with k mapped
\* to the empty list.
C17_EmptyGroupGivesEmptyList ==
    Terminated =>
        \A k \in EmptyGroupKeys :
            ksmparam = EmptyGroup(k) =>
                (Accepted /\ labelValueMap = << [key |-> k, values |-> <<>>] >>)

C17_Witness ==
    /\ Accepted
    /\ ksmparam = EmptyGroup(<<"p", "o", "d", "s">>)
    /\ labelValueMap = << [key |-> <<"p", "o", "d", "s">>, values |-> <<>>] >>

\* C18: an input whose first character is ',' fails with
\* InvalidArgumentValueError.
C18_LeadingCommaRejected ==
    (Terminated /\ Len(ksmparam) >= 1 /\ ksmparam[1] = ",")
        => RejectedInvalidFormat

C18_Witness == ksmparam = LeadingComma /\ RejectedInvalidFormat /\ i = 0

\* C20: a '[' at index 0 is rejected there with InvalidArgumentValueError; a
\* '=' at index 0 is rejected there only when '[' does not follow it; and for
\* "=[a]" the scan runs to the end, records the empty key with the value a,
\* and the call fails in the key pass.
C20_IndexZeroQuirk ==
    /\ (Terminated /\ Len(ksmparam) >= 1 /\ ksmparam[1] = "[")
           => (RejectedInvalidFormat /\ i = 0)
    /\ (pc = "raised" /\ i = 0 /\ Len(ksmparam) >= 1 /\ ksmparam[1] = "=")
           => ~PyEq(NextOf(ksmparam, 0), PyInt(Ord("[")))
    /\ (Terminated /\ ksmparam = EmptyKey) =>
           /\ RejectedInvalidFormat
           /\ i = Len(ksmparam)
           /\ labelIdx = 1
           /\ labelValueMap = << [key |-> <<>>, values |-> << <<"a">> >>] >>

C20_Witness ==
    ksmparam = EmptyKey /\ pc = "raised" /\ labelIdx = 1 /\ i = Len(ksmparam)

\* C19: no step of a wrapper or of the parser changes the namespace, the
\* parser never changes its argument, and a second invocation on the same
\* input ends as the first did: same return or same exception, same mapping.
C19_PureFunction ==
    [][/\ namespace' = namespace
       /\ (pc \in {"scan", "keys"} => ksmparam' = ksmparam)
       /\ ((callNo' = 2 /\ pc' \in {"returned", "raised"})
              => Outcome' = firstOutcome')]_vars

C19_Witness ==
    /\ callNo = 2
    /\ pc = "returned"
    /\ parserCalls = 2
    /\ Len(labelValueMap) >= 1
    /\ Outcome = firstOutcome

\* C21: a ']' that the scan does not reject appends input[firstWordPos:i] to
\* the list of the current key exactly when the character before it is not
\* '[', and a ',' that the scan does not reject does so exactly when the
\* character before it is not ']'; a step that does not append leaves the
\* mapping as it was, so one element is appended or none.
C21_AppendsExactlyWhen ==
    [][(pc = "scan" /\ i < Len(ksmparam)
            /\ error' # InvalidArgumentValueError) =>
          LET p == i + 1
              x == Slice(ksmparam, firstWordPos, i)
          IN  /\ ksmparam[p] = "]" =>
                     IF PreviousCharIsNot(ksmparam, p, "[")
                     THEN AppendsOne(x)
                     ELSE labelValueMap' = labelValueMap
              /\ ksmparam[p] = "," =>
                     IF PreviousCharIsNot(ksmparam, p, "]")
                     THEN AppendsOne(x)
                     ELSE labelValueMap' = labelValueMap]_vars

\* C22: a '=' at index i that passes its rule makes input[firstWordPos:i] the
\* current key, gives that key the empty list (one item, added at the end
\* when the key is new), sets firstWordPos to i+1 and leaves the item of
\* every other key as it was; any other step keeps the current key and the
\* keys of the mapping and leaves the item of every key but the current one
\* as it was.
C22_EqualsStartsKey ==
    [][(pc = "scan" /\ i < Len(ksmparam)) =>
          LET p == i + 1
              key == Slice(ksmparam, firstWordPos, i)
          IN  /\ (ksmparam[p] = "=" /\ EqRuleHolds(ksmparam, p)) =>
                     /\ pc' = "scan"
                     /\ name' = key
                     /\ firstWordPos' = i + 1
                     /\ Cardinality(ItemsOf(labelValueMap', key)) = 1
                     /\ \A j \in ItemsOf(labelValueMap', key) :
                            labelValueMap'[j].values = <<>>
                     /\ OthersUnchanged(key)
                     /\ Len(labelValueMap') =
                            IF HasKey(labelValueMap, key)
                            THEN Len(labelValueMap)
                            ELSE Len(labelValueMap) + 1
              /\ ksmparam[p] # "=" =>
                     /\ name' = name
                     /\ SameKeys
                     /\ OthersUnchanged(name)]_vars

C22_Witness ==
    /\ Accepted
    /\ ksmparam = Render(<< [key |-> <<"x", "x">>, values |-> << <<"x">> >>],
                           [key |-> <<"_", "1">>,
                            values |-> << <<"-", "1">>, <<"x">> >>] >>)
    /\ labelValueMap = << [key |-> <<"x", "x">>, values |-> << <<"x">> >>],
                          [key |-> <<"_", "1">>,
                           values |-> << <<"-", "1">>, <<"x">> >>] >>

\* C23: after every step of the scan firstWordPos is the position right
\* after the last delimiter among the characters processed so far, 0 when
\* there is none; no step lowers it or takes it beyond i+1; and a step on a
\* character that is no delimiter changes neither firstWordPos, the current
\* key nor the mapping.
C23_SegmentStart ==
    [][pc = "scan" =>
          /\ firstWordPos' = LastDelimiterEnd(ksmparam, i')
          /\ firstWordPos' >= firstWordPos
          /\ firstWordPos' <= i + 1
          /\ (i < Len(ksmparam) /\ ksmparam[i + 1] \notin Delimiters) =>
                 UNCHANGED <<firstWordPos, name, labelValueMap>>]_vars

C23_Witness ==
    /\ ksmparam = OpenBracket
    /\ pc = "scan"
    /\ i = 5
    /\ firstWordPos = 4

\* C24: an input that differs from the one parsed only in the characters of
\* its value tokens (each token as empty or non-empty as before) ends the
\* same way: the same error or none, and when accepted the same keys in the
\* same order with lists of the same lengths.
C24_ValuesNotValidated ==
    Terminated =>
        \A t \in ValueVariants(ksmparam) :
            LET r == Parse(t)
            IN  /\ r.error = error
                /\ Accepted =>
                       /\ Len(r.labelValueMap) = Len(labelValueMap)
                       /\ \A j \in 1..Len(labelValueMap) :
                              /\ r.labelValueMap[j].key = labelValueMap[j].key
                              /\ Len(r.labelValueMap[j].values) =
                                     Len(labelValueMap[j].values)

C24_Witness ==
    /\ Accepted
    /\ ksmparam = <<"x", "x", "=", "[", "-", "1", ",", "x", "]">>
    /\ SubstValues(ksmparam, "x") =
           <<"x", "x", "=", "[", "x", "x", ",", "x", "]">>
    /\ StretchValues(ksmparam) =
           <<"x", "x", "=", "[", "-", "-", "1", "1", ",", "x", "x", "]">>
    /\ Parse(StretchValues(ksmparam)).labelValueMap # labelValueMap

\* C25: the key pass runs only once the scan has processed every character,
\* none of them violating its delimiter rule; and a call on an input with a
\* violated delimiter rule ends in the scan, stopped at the leftmost violated
\* position, the key pass never begun.
C25_ScanStopsAtFirstViolation ==
    /\ pc = "keys" =>
           (i = Len(ksmparam) /\ Violations(ksmparam) = {})
    /\ (Terminated /\ Violations(ksmparam) # {}) =>
           /\ pc = "raised"
           /\ labelIdx = 0
           /\ i + 1 = LeftmostViolation(ksmparam)

\* C26: every call ends, returned or raised. Until then each step of the
\* scan processes index i and moves on to i+1 or raises there; at
\* i = len(ksmparam) the key pass starts at the first key; each of its steps
\* checks the key at labelIdx and moves on to the next or raises, the
\* mapping staying as the scan left it; after the last key the call returns;
\* and nothing runs after the end.
C26_Terminates ==
    /\ <>Terminated
    /\ [][/\ (pc = "scan" /\ i < Len(ksmparam)) =>
                 \/ pc' = "scan" /\ i' = i + 1
                 \/ pc' = "raised" /\ i' = i
          /\ (pc = "scan" /\ i = Len(ksmparam)) =>
                 pc' = "keys" /\ i' = i /\ labelIdx' = 1
          /\ pc = "keys" =>
                 /\ i' = i
                 /\ labelValueMap' = labelValueMap
                 /\ \/ /\ labelIdx <= Len(labelValueMap)
                       /\ pc' = "keys"
                       /\ labelIdx' = labelIdx + 1
                    \/ /\ labelIdx <= Len(labelValueMap)
                       /\ pc' = "raised"
                    \/ /\ labelIdx = Len(labelValueMap) + 1
                       /\ pc' = "returned"
          /\ ~Terminated]_vars

C26_Witness ==
    /\ pc = "returned"
    /\ Len(ksmparam) >= 9
    /\ i = Len(ksmparam)
    /\ Len(labelValueMap) = 2
    /\ labelIdx = 3

\* C27: in every state the current key, every key of the mapping and every
\* value of every list are free of '=', '[', ']' and ',', and so is the
\* substring input[firstWordPos:i] the scan would capture next.
C27_NoDelimiterCaptured ==
    /\ DelimiterFree(name)
    /\ \A j \in 1..Len(labelValueMap) :
           /\ DelimiterFree(labelValueMap[j].key)
           /\ \A h \in 1..Len(labelValueMap[j].values) :
                  DelimiterFree(labelValueMap[j].values[h])
    /\ pc = "scan" => DelimiterFree(Slice(ksmparam, firstWordPos, i))

C27_Witness ==
    /\ ksmparam = TrailingWord
    /\ pc = "scan"
    /\ i = 9
    /\ firstWordPos = 7
    /\ labelValueMap = << [key |-> <<"x", "x">>, values |-> << <<"a">> >>] >>

\* C28: when the call completes, no list of the mapping holds an empty
\* string.
C28_ValuesNonEmpty ==
    Accepted =>
        \A j \in 1..Len(labelValueMap) :
            \A h \in 1..Len(labelValueMap[j].values) :
                Len(labelValueMap[j].values[h]) >= 1

\* C29: a wrapper whose own flag is None returns without error and without
\* any call of the parser; a wrapper whose own flag is a string, the empty
\* one included, calls the parser once on that string and ends as the parser
\* does on it: returned or raised, the same error, the same mapping,
\* whatever the other flag holds.
C29_WrapperOutcome ==
    Terminated =>
        LET own == OwnFlag(namespace, wrapper)
        IN  IF PyEq(own, PyNone)
            THEN pc = "returned" /\ error = NoError /\ parserCalls = 0
            ELSE LET r == Parse(own.v)
                 IN  /\ parserCalls = callNo
                     /\ ksmparam = own.v
                     /\ error = r.error
                     /\ pc = "returned" <=> r.error = NoError
                     /\ labelValueMap = r.labelValueMap

C29_Witness ==
    /\ pc = "returned"
    /\ wrapper = "validate_ksm_labels"
    /\ namespace.ksm_metric_labels_allow_list = PyStr(DupXX)
    /\ namespace.ksm_metric_annotations_allow_list = PyStr(KeyWithoutBracket)
    /\ callNo = 1
    /\ parserCalls = 1

\* C30: validate_nodes_count raises exactly when min_count is given and
\* outside 0..1000 or max_count is given and outside 0..1000; a count of
\* None is passed over and the counts 0 and 1000 are let through; the error
\* is the one of min_count whenever min_count is at fault, max_count being
\* looked at only after it; a call that does not raise returns None; and no
\* step changes the namespace.
C30_NodesCount ==
    [][/\ namespace' = namespace
       /\ pc' \in {"returned", "raised"} =>
              LET minBad == GivenAndOutside(namespace.min_count)
                  maxBad == GivenAndOutside(namespace.max_count)
              IN  /\ pc' = "raised" <=> (minBad \/ maxBad)
                  /\ minBad => (error' = MinCountError /\ pc = "min_count")
                  /\ (~minBad /\ maxBad) =>
                         (error' = MaxCountError /\ pc = "max_count")
                  /\ pc' = "returned" =>
                         (error' = NoError /\ PyEq(retval', PyNone))]_vars

C30_Witness ==
    /\ pc = "returned"
    /\ namespace.min_count = PyInt(NodesCountLow)
    /\ namespace.max_count = PyInt(NodesCountHigh)

====
